---- MODULE Spec2Model ----
(***************************************************************************)
(* A model of the autograder of p0/tutorial: the ledger Grades             *)
(* (grading.py), the grading policies (testClasses.py), the question       *)
(* discovery of autograder.py, the timeout wrapper and the print muting of *)
(* util.py, and the test-file parser (testParser.py).                      *)
(***************************************************************************)
EXTENDS Integers, Sequences, FiniteSets, TLC

VARIABLES
    questionToGrade,   \* evaluate's questionToGrade: None or a question id
    depends,           \* per question, the split `depends` field of its CONFIG
    klass,             \* per question, the `class` field of its CONFIG
    extraPoints,       \* per question, int(questionDict['extra_points'])
    testCases,         \* per question, the `points` field of each test record
    hasSIGALRM,        \* hasattr(signal, 'SIGALRM')
    grades,            \* the Grades object
    io,                \* util's _MUTED, _ORIGINAL_STDOUT and sys.stdout, and
                       \* whether a line of the grader went to WritableNull
    completedQuestions,\* Grades.grade's local set
    qi,                \* position of Grades.grade's for loop (1-based)
    pc,                \* "loop", "execute", "done" or "crashed"
    frame,             \* the locals of the running Question.execute
    log,               \* history: one record per finished turn of the loop
    escaped,           \* the exception that left Grades.grade, or "none"
    artifact,          \* <<>>, or <<what gradescope_response.json holds>>
    content,           \* the text of the test file, a sequence of characters
    parsed,            \* what TestParser.parse returned or raised
    emitted,           \* what emitTestDict wrote
    ppc,               \* "file", "parsed", "failed" or "emitted"
    etest,             \* an EvalTest object
    moduleDict,        \* the module namespace the test is evaluated in
    solutionDict,      \* the parsed solution record
    solFile,           \* the text of the solution file on disk
    eout,              \* what the last EvalTest call returned or raised
    epc,               \* "ready", "returned", "raised", "caught", "wrote", "reran"
    calls,             \* history: the mutePrint and unmutePrint calls made
    ran,               \* history: the tests executed before etest, each with
                       \* the module namespace it was given
    ops,               \* history: the ledger operations called directly
    orderList,         \* the order: a list of (fruit, pounds) pairs
    fruitShops,        \* the FruitShop objects, in list order
    shopOut,           \* per function of the shop modules called, its result
    sig,               \* the process's SIGALRM handler and pending alarm
    tpc,               \* "idle", "called", "ended" or "killed"
    tcalls             \* history: how each TimeoutFunction call ended

configVars == <<questionToGrade, depends, klass, extraPoints, testCases,
                hasSIGALRM>>
gradeVars == <<grades, io, completedQuestions, qi, pc, frame, log, escaped,
               artifact>>
parserVars == <<content, parsed, emitted, ppc>>
evalVars == <<etest, moduleDict, solutionDict, solFile, eout, epc, ran>>
shopVars == <<orderList, fruitShops, shopOut>>
timerVars == <<sig, tpc, tcalls>>
moreVars == <<ops, shopVars, timerVars>>
\* What Grades.grade leaves alone.
sideVars == <<parserVars, evalVars, calls, moreVars>>

vars == <<configVars, gradeVars, sideVars>>

None == "None"

\* Question directories of the test root; "q" is a one-character name.
Ids == {"q1", "q2", "q"}

Policies == {"PassAllTestsQuestion", "ExtraCreditPassAllTestsQuestion",
             "HackedPartialCreditQuestion", "Q6PartialCreditQuestion",
             "PartialCreditQuestion", "NumberPassedQuestion"}

\* Bounds of the inputs.
MaxPoints == 1
MaxExtra == 1
MaxTests == 2
MaxDepends == 1

\* The `points` field of a test record: absent, or float(points) in halves.
NoPoints == [hasPoints |-> FALSE, points2 |-> 0]
WithPoints(h) == [hasPoints |-> TRUE, points2 |-> h]
\* points: "0.5" and points: "1"
TestDicts == {NoPoints} \cup {WithPoints(h) : h \in {1, 2}}

SeqsUpTo(S, n) == UNION {[1..k -> S] : k \in 0..n}

Range(s) == {s[i] : i \in 1..Len(s)}

----------------------------------------------------------------------------
(* testParser.py. Text is a sequence of one-character strings.              *)

NL == "\n"
Quote == "\""

\* str.splitlines() of a text whose only line break is "\n": the pieces
\* between the breaks, without a last empty piece.
RECURSIVE SplitFrom(_, _, _)
SplitFrom(text, i, cur) ==
    IF i > Len(text) THEN (IF cur = <<>> THEN <<>> ELSE <<cur>>)
    ELSE IF text[i] = NL THEN <<cur>> \o SplitFrom(text, i + 1, <<>>)
    ELSE SplitFrom(text, i + 1, Append(cur, text[i]))

splitlines(text) == SplitFrom(text, 1, <<>>)

\* '\n'.join(lines)
RECURSIVE join(_)
join(lines) ==
    IF lines = <<>> THEN <<>>
    ELSE IF Len(lines) = 1 THEN lines[1]
    ELSE lines[1] \o <<NL>> \o join(Tail(lines))

\* The least index of character c in line from index i on, or 0.
RECURSIVE Find(_, _, _)
Find(line, c, i) ==
    IF i > Len(line) THEN 0
    ELSE IF line[i] = c THEN i
    ELSE Find(line, c, i + 1)

\* line.split('#')[0]
StripComment(line) ==
    LET h == Find(line, "#", 1)
    IN IF h = 0 THEN line ELSE SubSeq(line, 1, h - 1)

removeComments(rawlines) ==
    join([i \in 1..Len(rawlines) |-> StripComment(rawlines[i])])

\* \A\s*\Z
Blank(line) == \A i \in 1..Len(line) : line[i] = " "

\* The ([^"]*?):\s* prefix of both field patterns: the colon that only
\* whitespace separates from the first quote, or 0.
RECURSIVE ColonBefore(_, _)
ColonBefore(line, i) ==
    IF i < 1 THEN 0
    ELSE IF line[i] = ":" THEN i
    ELSE IF line[i] = " " THEN ColonBefore(line, i - 1)
    ELSE 0

\* \A([^"]*?):\s*"([^"]*)"\s*\Z : the key and the value, or no match.
MatchOneLine(line) ==
    LET q1 == Find(line, Quote, 1)
        c == IF q1 = 0 THEN 0 ELSE ColonBefore(line, q1 - 1)
        q2 == IF q1 = 0 THEN 0 ELSE Find(line, Quote, q1 + 1)
    IN IF c # 0 /\ q2 # 0 /\ Blank(SubSeq(line, q2 + 1, Len(line)))
       THEN [match |-> TRUE, key |-> SubSeq(line, 1, c - 1),
             value |-> SubSeq(line, q1 + 1, q2 - 1)]
       ELSE [match |-> FALSE, key |-> <<>>, value |-> <<>>]

\* \A([^"]*?):\s*"""\s*\Z : the key, or no match.
MatchMultiLine(line) ==
    LET q1 == Find(line, Quote, 1)
        c == IF q1 = 0 THEN 0 ELSE ColonBefore(line, q1 - 1)
    IN IF /\ c # 0
          /\ q1 + 2 <= Len(line)
          /\ line[q1 + 1] = Quote
          /\ line[q1 + 2] = Quote
          /\ Blank(SubSeq(line, q1 + 3, Len(line)))
       THEN [match |-> TRUE, key |-> SubSeq(line, 1, c - 1)]
       ELSE [match |-> FALSE, key |-> <<>>]

\* \A\s*"""\s*\Z
MatchClose(line) ==
    LET q1 == Find(line, Quote, 1)
    IN /\ q1 # 0
       /\ Blank(SubSeq(line, 1, q1 - 1))
       /\ q1 + 2 <= Len(line)
       /\ line[q1 + 1] = Quote
       /\ line[q1 + 2] = Quote
       /\ Blank(SubSeq(line, q1 + 3, Len(line)))

\* test[key] = value
SetField(fields, key, value) ==
    [k \in DOMAIN fields \cup {key} |-> IF k = key THEN value ELSE fields[k]]

\* Faulty variant: the last line of the file taken for a closing line.
RECURSIVE BlockEndLenient(_, _)
BlockEndLenient(lines, i) ==
    IF i < Len(lines) /\ ~MatchClose(lines[i]) THEN BlockEndLenient(lines, i + 1)
    ELSE i

\* Faulty variant: the 0-based index reported.
ReportedLineZeroBased(i) == i - 1

\* The line number of the error message: i + 1 for the 0-based index of the
\* code, which is the 1-based index i here.
ReportedLine(i) == i

\* The index of the closing line of a block whose first line is i, or
\* Len(lines) + 1.
RECURSIVE BlockEnd(_, _)
BlockEnd(lines, i) ==
    IF i <= Len(lines) /\ ~MatchClose(lines[i]) THEN BlockEnd(lines, i + 1) ELSE i

\* The while loop of TestParser.parse from line i on.
RECURSIVE ParseLoop(_, _, _, _)
ParseLoop(lines, raw, i, test) ==
    IF i > Len(lines) THEN [ok |-> TRUE, test |-> test]
    ELSE IF Blank(lines[i])
    THEN ParseLoop(lines, raw, i + 1,
                   [test EXCEPT !.emit = Append(@, <<"raw", raw[i]>>)])
    ELSE IF MatchOneLine(lines[i]).match
    THEN LET m == MatchOneLine(lines[i])
         IN ParseLoop(lines, raw, i + 1,
                      [fields |-> SetField(test.fields, m.key, m.value),
                       emit |-> Append(test.emit, <<"oneline", m.key>>)])
    ELSE IF MatchMultiLine(lines[i]).match
    THEN LET m == MatchMultiLine(lines[i])
             e == BlockEnd(lines, i + 1)
         IN IF e > Len(lines)
            THEN [ok |-> FALSE, error |-> "ValueError",
                  message |-> "Unterminated multiline string", line |-> 0]
            ELSE ParseLoop(lines, raw, e + 1,
                           [fields |-> SetField(test.fields, m.key,
                                                join(SubSeq(raw, i + 1, e - 1))),
                            emit |-> Append(test.emit, <<"multiline", m.key>>)])
    ELSE [ok |-> FALSE, error |-> "ValueError",
          message |-> "Invalid format", line |-> ReportedLine(i)]

\* TestParser.parse of an existing file with the given text.
parse(text) ==
    LET raw == splitlines(text)
        lines == splitlines(removeComments(raw))
    IN ParseLoop(lines, raw, 1, [fields |-> <<>>, emit |-> <<>>])

\* What emitTestDict writes for one entry of __emit__.
EmitOne(test, entry) ==
    CASE entry[1] = "raw" -> entry[2] \o <<NL>>
      [] entry[1] = "oneline" ->
            entry[2] \o <<":", " ", Quote>> \o test.fields[entry[2]]
                     \o <<Quote, NL>>
      [] OTHER ->
            entry[2] \o <<":", " ", Quote, Quote, Quote, NL>>
                     \o test.fields[entry[2]]
                     \o <<NL, Quote, Quote, Quote, NL>>

RECURSIVE EmitFrom(_, _)
EmitFrom(test, i) ==
    IF i > Len(test.emit) THEN <<>>
    ELSE EmitOne(test, test.emit[i]) \o EmitFrom(test, i + 1)

emitTestDict(test) == EmitFrom(test, 1)

\* The lines test files are made of.
LineChoices ==
    { <<>>,
      <<" ">>,
      <<"#", "c">>,
      <<"a", ":", " ", Quote, "b", Quote>>,
      <<"a", ":", Quote, "c", Quote>>,
      <<"b", ":", " ", Quote, "c", Quote, "#">>,
      <<"a", ":", " ", Quote, Quote, Quote>>,
      <<Quote, Quote, Quote>>,
      <<Quote, Quote, Quote, " ", "#">>,
      <<"c">> }

MaxLines == 3

\* The files: up to MaxLines lines, each ended by a line break except,
\* possibly, the last.
Files ==
    {join(ls) \o (IF nl THEN <<NL>> ELSE <<>>) :
        ls \in SeqsUpTo(LineChoices, MaxLines) \ {<<>>}, nl \in BOOLEAN}
    \cup {<<>>}

ParserIdle ==
    /\ content = <<>>
    /\ parsed = None
    /\ emitted = None
    /\ ppc = "idle"

\* No EvalTest object and no muting call looked at.
EvalIdle ==
    /\ etest = None
    /\ moduleDict = None
    /\ solutionDict = None
    /\ solFile = None
    /\ eout = None
    /\ epc = "idle"
    /\ ran = <<>>
    /\ calls = <<>>

\* No ledger operation called directly, no shop function and no
\* TimeoutFunction on its own.
LedgerIdle == ops = <<>>

ShopIdle ==
    /\ orderList = <<>>
    /\ fruitShops = <<>>
    /\ shopOut = <<>>

TimerIdle ==
    /\ sig = None
    /\ tpc = "idle"
    /\ tcalls = <<>>

MoreIdle == LedgerIdle /\ ShopIdle /\ TimerIdle

Parse ==
    /\ ppc = "file"
    /\ parsed' = parse(content)
    /\ ppc' = IF parse(content).ok THEN "parsed" ELSE "failed"
    /\ UNCHANGED <<configVars, gradeVars, evalVars, calls, moreVars, content, emitted>>

Emit ==
    /\ ppc = "parsed"
    /\ emitted' = emitTestDict(parsed.test)
    /\ ppc' = "emitted"
    /\ UNCHANGED <<configVars, gradeVars, evalVars, calls, moreVars, content, parsed>>

----------------------------------------------------------------------------
(* util.py: print muting *)

WritableNull == "WritableNull"
Terminal == "terminal"

\* Faulty variant: no test of _MUTED, so a second call saves the null stream.
mutePrintUnguarded(o) ==
    [o EXCEPT !.MUTED = TRUE, !.ORIGINAL_STDOUT = o.stdout,
              !.stdout = WritableNull]

\* Faulty variant: no test of _MUTED, so a call while unmuted installs what
\* _ORIGINAL_STDOUT holds.
unmutePrintUnguarded(o) ==
    [o EXCEPT !.MUTED = FALSE, !.stdout = o.ORIGINAL_STDOUT]

mutePrint(o) ==
    IF o.MUTED THEN o
    ELSE [o EXCEPT !.MUTED = TRUE, !.ORIGINAL_STDOUT = o.stdout,
                   !.stdout = WritableNull]

\* The muting state of the module after import, with sys.stdout as given.
Imported(stdout) ==
    [MUTED |-> FALSE, ORIGINAL_STDOUT |-> None, stdout |-> stdout,
     discarded |-> FALSE]

\* print(...) by the grader itself: the line goes to sys.stdout. History:
\* discarded is set when that is the WritableNull.
GraderPrints(o) == [o EXCEPT !.discarded = @ \/ o.stdout = WritableNull]

unmutePrint(o) ==
    IF ~o.MUTED THEN o
    ELSE [o EXCEPT !.MUTED = FALSE, !.stdout = o.ORIGINAL_STDOUT]

\* The muting states in which a TimeoutFunctionException raised by the
\* alarm can find the grader's own code while output is muted: muted, as
\* between the ledger calls; unmuted, inside addMessage between unmutePrint
\* and mutePrint; and inside mutePrint with WritableNull() built and
\* sys.stdout not yet assigned.
InterruptedIO(o, mute) ==
    IF ~mute THEN {o}
    ELSE {o, unmutePrint(o), [unmutePrint(o) EXCEPT !.MUTED = TRUE]}

----------------------------------------------------------------------------
(* grading.py: the ledger operations. g is the Grades object, o the muting *)
(* state; an operation that prints returns both.                           *)

\* html.escape(message): the stored form of a printed message.
escape(message) == <<"escaped", message>>

\* Faulty variant: the message printed without unmuting first.
addMessageMuted(go, message) ==
    LET g == go.g
    IN [g |-> IF g.currentQuestion # None
              THEN [g EXCEPT !.messages[g.currentQuestion] =
                                 Append(@, escape(message))]
              ELSE g,
        o |-> GraderPrints(go.o)]

addMessage(go, message) ==
    LET g == go.g
        o1 == IF g.mute THEN mutePrint(GraderPrints(unmutePrint(go.o)))
              ELSE GraderPrints(go.o)
    IN [g |-> IF g.currentQuestion # None
              THEN [g EXCEPT !.messages[g.currentQuestion] =
                                 Append(@, escape(message))]
              ELSE g,
        o |-> o1]

\* Faulty variant: every question zeroed, with or without a current question.
assignZeroCreditEverywhere(g) == [g EXCEPT !.points = [q \in Ids |-> 0]]

assignZeroCredit(g) ==
    IF g.currentQuestion # None
    THEN [g EXCEPT !.points[g.currentQuestion] = 0]
    ELSE g

addPoints(g, amt) ==
    IF g.currentQuestion # None
    THEN [g EXCEPT !.points[g.currentQuestion] = @ + amt]
    ELSE g

deductPoints(g, amt) ==
    IF g.currentQuestion # None
    THEN [g EXCEPT !.points[g.currentQuestion] = @ - amt]
    ELSE g

assignFullCredit(g) ==
    IF g.currentQuestion # None
    THEN [g EXCEPT !.points[g.currentQuestion] = g.maxes[g.currentQuestion]]
    ELSE g

\* The sum of f over the set S of its arguments.
RECURSIVE SumOver(_, _)
SumOver(f, S) ==
    IF S = {} THEN 0
    ELSE LET x == CHOOSE y \in S : TRUE IN f[x] + SumOver(f, S \ {x})

\* What produceGradeScopeOutput writes: score, max_score and the name,
\* score and max_score of each entry of tests.
produceGradeScopeOutput(g) ==
    [score |-> SumOver(g.points, DOMAIN g.points),
     max_score |-> SumOver(g.maxes, DOMAIN g.maxes),
     tests |-> [i \in 1..Len(g.questions) |->
                   [name |-> g.questions[i],
                    score |-> g.points[g.questions[i]],
                    max_score |-> g.maxes[g.questions[i]]]]]

fail(go, message) ==
    addMessage([g |-> assignZeroCredit([go.g EXCEPT !.sane = FALSE]), o |-> go.o],
               message)

\* str(inst) of the exceptions a grading function raises.
StrOfInst(kind) ==
    CASE kind = "Exception" -> "Error evaluating test: <e>"
      [] kind = "TimeoutFunctionException" -> ""
      [] OTHER -> "<e>"

addExceptionMessage(go, kind) ==
    addMessage(addMessage(fail(go, "FAIL: Exception raised: " \o StrOfInst(kind)),
                          ""),
               "Traceback: " \o kind)

\* Grades.grade's exceptionMap: evaluate calls grade without one, so it is {}.
exceptionMap == [q \in {} |-> ""]

\* addErrorHints(exceptionMap, inst, q[1]): the argument q[1] is evaluated
\* first and raises IndexError for a one-character id; with a hint registered
\* for 'q' + q[1] the hint is added as a message.
SecondChar == [q \in {"q1", "q2"} |-> IF q = "q1" THEN "1" ELSE "2"]

\* autograder.py's ERROR_HINT_MAP: per question name, a hint per type name.
\* evaluate takes it as the default of its own exceptionMap parameter and
\* does not hand it on to Grades.grade.
ERROR_HINT_MAP ==
    [qn \in {"q1", "q3"} |->
        IF qn = "q1"
        THEN [t \in {"<type 'exceptions.IndexError'>"} |-> "<hint: IndexError on q1>"]
        ELSE [t \in {"<type 'exceptions.AttributeError'>"} |->
                 "<hint: AttributeError on q3>"]]

\* str(type(errorInstance)) of the exceptions that reach the clause.
TypeOf(kind) ==
    IF kind = "TimeoutFunctionException"
    THEN "<class 'util.TimeoutFunctionException'>"
    ELSE "<class '" \o kind \o "'>"

\* The hint addErrorHints finds in the map it is given, or "".
ErrorHint(map, questionName, typeOf) ==
    IF questionName \in DOMAIN map
    THEN IF typeOf \in DOMAIN map[questionName]
         THEN map[questionName][typeOf] ELSE ""
    ELSE IF typeOf \in DOMAIN map THEN map[typeOf] ELSE ""

addErrorHints(go, q, kind) ==
    IF Len(q) < 2
    THEN [go |-> go, raised |-> "IndexError"]
    ELSE LET errorHint == ErrorHint(exceptionMap, "q" \o SecondChar[q], TypeOf(kind))
         IN [go |-> IF errorHint # "" THEN addMessage(go, errorHint) ELSE go,
             raised |-> "none"]

\* Faulty variant: a timeout caught by the bare except clause.
HandlerTimeoutTerminated(go, q, kind) ==
    IF kind = "Exception"
    THEN addErrorHints(addExceptionMessage(go, kind), q, kind)
    ELSE [go |-> fail(go, "FAIL: Terminated with a string exception."),
          raised |-> "none"]

\* The except clauses of Grades.grade for an exception of the given kind.
Handler(go, q, kind) ==
    IF kind \in {"Exception", "TimeoutFunctionException"}
    THEN addErrorHints(addExceptionMessage(go, kind), q, kind)
    ELSE [go |-> fail(go, "FAIL: Terminated with a string exception."),
          raised |-> "none"]

----------------------------------------------------------------------------
(* tutorialTestClasses.py: EvalTest.execute, the thunk of a test case, when *)
(* evalCode returns: result is whether str(eval(test)) equals the solution. *)

\* Faulty variant: the pass branch leaves the expected value out.
EvalTestMessagesNoExpected(go, match, success, failure, result, solution) ==
    IF match
    THEN addMessage(go, "PASS: " \o success)
    ELSE addMessage(addMessage(addMessage(go, "FAIL: " \o failure),
                               "\t student result: \"" \o result \o "\""),
                    "\t correct result: \"" \o solution \o "\"")

\* The two branches of EvalTest.execute after the comparison.
EvalTestMessages(go, match, success, failure, result, solution) ==
    IF match
    THEN addMessage(addMessage(go, "PASS: " \o success),
                    "\t correct result: \"" \o solution \o "\"")
    ELSE addMessage(addMessage(addMessage(go, "FAIL: " \o failure),
                               "\t student result: \"" \o result \o "\""),
                    "\t correct result: \"" \o solution \o "\"")

EvalTestExecute(go, result) ==
    EvalTestMessages(go, result, "<success>", "<failure>", "<result>", "<solution>")

\* A sequence of characters as one string.
RECURSIVE Text(_)
Text(chars) == IF chars = <<>> THEN "" ELSE Head(chars) \o Text(Tail(chars))

Digits == <<"0", "1", "2", "3", "4", "5", "6", "7", "8", "9">>

\* str(n) of a natural number, as a sequence of characters.
RECURSIVE StrInt(_)
StrInt(n) ==
    IF n < 10 THEN <<Digits[n + 1]>>
    ELSE StrInt(n \div 10) \o <<Digits[(n % 10) + 1]>>

\* The `preamble` and `test` fields looked at: Python source texts, named by
\* themselves; "" is an absent field.
Preambles == {"", "x = 2", "x = y"}
TestExprs == {"x + 3", "'5'", "''", "'a\"b'", "1/0", "exit()", ""}

\* EvalTest.__post_init__: it replaces TestCase.__post_init__, which is
\* therefore not run and self.path is never set.
EvalTestPostInit(testDict) ==
    [preamble |-> testDict.preamble, test |-> testDict.test,
     success |-> testDict.success, failure |-> testDict.failure,
     hasPath |-> FALSE]

evalReturn(chars) == [raised |-> "none", value |-> chars]
evalRaise(kind, message) == [raised |-> kind, message |-> message]

\* exec(self.preamble, bindings): the bindings afterwards, or what it raises.
\* bindings.x is <<v>> when the name x is bound to v, and <<>> when it is not.
ExecPreamble(preamble, bindings) ==
    CASE preamble = "" -> [raised |-> "none", bindings |-> bindings]
      [] preamble = "x = 2" -> [raised |-> "none", bindings |-> [x |-> <<2>>]]
      [] OTHER -> evalRaise("Exception",
                            "Error in preamble: name 'y' is not defined")

\* str(eval(self.test, bindings)), with evalCode's except Exception clause.
EvalExpr(test, bindings) ==
    CASE test = "x + 3" ->
            IF bindings.x = <<>>
            THEN evalRaise("Exception",
                           "Error evaluating test: name 'x' is not defined")
            ELSE evalReturn(StrInt(bindings.x[1] + 3))
      [] test = "'5'" -> evalReturn(<<"5">>)
      [] test = "''" -> evalReturn(<<>>)
      [] test = "'a\"b'" -> evalReturn(<<"a", Quote, "b">>)
      [] test = "1/0" ->
            evalRaise("Exception", "Error evaluating test: division by zero")
      [] test = "exit()" -> evalRaise("SystemExit", "None")
      [] OTHER ->
            evalRaise("Exception",
                      "Error evaluating test: invalid syntax (<string>, line 0)")

\* Dictionaries are objects: heap is the sequence of the dictionaries that
\* exist, and a reference to one is its position.
\* Faulty variant: bindings is moduleDict itself.
SameDict(heap, ref) == [heap |-> heap, ref |-> ref]

\* dict(moduleDict): a new dictionary with the keys and values of the old.
NewDict(heap, ref) == [heap |-> Append(heap, heap[ref]), ref |-> Len(heap) + 1]

\* EvalTest.evalCode: the dictionaries afterwards and what the call returned
\* or raised. exec binds the names of the preamble in bindings.
evalCodeOn(t, heap, moduleRef) ==
    LET b == NewDict(heap, moduleRef)
        pre == ExecPreamble(t.preamble, b.heap[b.ref])
        h == IF pre.raised # "none" THEN b.heap
             ELSE [b.heap EXCEPT ![b.ref] = pre.bindings]
    IN [heap |-> h,
        out |-> IF pre.raised # "none" THEN pre ELSE EvalExpr(t.test, h[b.ref])]

\* What evalCode returns or raises when moduleDict is the only dictionary.
evalCode(t, module) == evalCodeOn(t, <<module>>, 1).out

\* The caller's moduleDict after the call.
ModuleAfter(t, module) == evalCodeOn(t, <<module>>, 1).heap[1]

Result == <<"r", "e", "s", "u", "l", "t">>

\* solutionDict.get('result', '')
GetResult(solution) ==
    IF Result \in DOMAIN solution THEN solution[Result] ELSE <<>>

\* Faulty variant: an error of the evaluation recorded as a failed test.
executeGraceful(go, t, module, solution) ==
    LET r == evalCode(t, module)
    IN IF r.raised # "none"
       THEN [go |-> addMessage(go, "FAIL: " \o t.failure),
             out |-> [raised |-> "none", value |-> FALSE]]
       ELSE [go |-> EvalTestMessages(go, r.value = GetResult(solution),
                                     t.success, t.failure, Text(r.value),
                                     Text(GetResult(solution))),
             out |-> [raised |-> "none", value |-> r.value = GetResult(solution)]]

\* EvalTest.execute: the ledger afterwards and what the call returned or
\* raised.
execute(go, t, module, solution) ==
    LET r == evalCode(t, module)
    IN IF r.raised # "none" THEN [go |-> go, out |-> r]
       ELSE [go |-> EvalTestMessages(go, r.value = GetResult(solution),
                                     t.success, t.failure, Text(r.value),
                                     Text(GetResult(solution))),
             out |-> [raised |-> "none", value |-> r.value = GetResult(solution)]]

\* The two comment lines writeSolution writes first, the path in the first.
SolutionHeader(path) ==
    <<"#", " ">> \o path \o <<NL, "#", NL>>

\* EvalTest.writeSolution: the text of the file afterwards and what the call
\* returned or raised. The file is opened for writing, and so emptied, before
\* the text is formatted; formatting reads self.path first.
writeSolution(t, module, path) ==
    IF ~t.hasPath
    THEN [file |-> <<>>,
          out |-> evalRaise("AttributeError",
                            "'EvalTest' object has no attribute 'path'")]
    ELSE LET r == evalCode(t, module)
         IN IF r.raised # "none" THEN [file |-> <<>>, out |-> r]
            ELSE [file |-> SolutionHeader(path) \o Result
                               \o <<":", " ", Quote>> \o r.value \o <<Quote, NL>>,
                  out |-> [raised |-> "none", value |-> TRUE]]

----------------------------------------------------------------------------
(* testClasses.py: the grading policies, split at the thunk calls.          *)

ZeroesFirst == {"PassAllTestsQuestion", "ExtraCreditPassAllTestsQuestion",
                "HackedPartialCreditQuestion", "Q6PartialCreditQuestion",
                "PartialCreditQuestion"}

\* The statements of execute before its first thunk.
ExecuteBegin(g, class) ==
    IF class \in ZeroesFirst THEN assignZeroCredit(g) ELSE g

\* stopped: execute has left its loop with a return. History: before is the
\* question's points and msgStart the length of its message list when the
\* question was called; invoked lists the thunks called, by position in
\* testCases.
NewFrame == [ti |-> 1, testsFailed |-> FALSE, points2 |-> 0, passed |-> TRUE,
             stopped |-> FALSE, results |-> <<>>, invoked |-> <<>>,
             before |-> 0, msgStart |-> 0]

\* Faulty variant: no policy leaves its loop early.
StopsNever(class, testResult) == FALSE

\* PartialCreditQuestion returns from inside its loop at the first thunk
\* that returns false.
Stops(class, testResult) == class = "PartialCreditQuestion" /\ ~testResult

\* The ledger calls of the loop body: PartialCreditQuestion zeroes and fails
\* before it returns.
LoopBodyLedger(go, class, testResult) ==
    IF Stops(class, testResult)
    THEN fail([go EXCEPT !.g = assignZeroCredit(go.g)], "Tests failed.")
    ELSE go

\* Faulty variant: testsFailed assigned from the last thunk alone.
AfterThunkLastOnly(f, class, testDict, testResult) ==
    LET f1 == [f EXCEPT !.ti = @ + 1, !.results = Append(@, testResult),
                        !.invoked = Append(@, f.ti),
                        !.stopped = Stops(class, testResult)]
    IN CASE class \in {"PassAllTestsQuestion", "ExtraCreditPassAllTestsQuestion"} ->
              [f1 EXCEPT !.testsFailed = ~testResult]
         [] class = "HackedPartialCreditQuestion" ->
              IF testDict.hasPoints
              THEN [f1 EXCEPT !.points2 =
                                  IF testResult THEN @ + testDict.points2 ELSE @]
              ELSE [f1 EXCEPT !.passed = @ /\ testResult]
         [] OTHER -> f1

\* The loop body of execute after thunk ti of test record testDict returned
\* testResult.
AfterThunk(f, class, testDict, testResult) ==
    LET f1 == [f EXCEPT !.ti = @ + 1, !.results = Append(@, testResult),
                        !.invoked = Append(@, f.ti),
                        !.stopped = Stops(class, testResult)]
    IN CASE class \in {"PassAllTestsQuestion", "ExtraCreditPassAllTestsQuestion"} ->
              [f1 EXCEPT !.testsFailed = @ \/ ~testResult]
         [] class = "HackedPartialCreditQuestion" ->
              IF testDict.hasPoints
              THEN [f1 EXCEPT !.points2 =
                                  IF testResult THEN @ + testDict.points2 ELSE @]
              ELSE [f1 EXCEPT !.passed = @ /\ testResult]
         [] OTHER -> f1

\* Faulty variant: round(points) instead of int(points).
IntOfRounded(points2) == (points2 + 1) \div 2

\* int(points) of the float sum kept in halves.
IntOf(points2) == points2 \div 2

CountTrue(results) == Cardinality({i \in 1..Len(results) : results[i]})

\* The statements of each execute after its last thunk.
PassAllEnd(go, f) ==
    IF f.testsFailed THEN fail(go, "Tests failed.")
    ELSE [go EXCEPT !.g = assignFullCredit(go.g)]

\* Faulty variant: the bonus added outside the else branch.
ExtraCreditEndBonusAlways(go, f, extra) ==
    LET go1 == IF f.testsFailed THEN fail(go, "Tests failed.")
               ELSE [go EXCEPT !.g = assignFullCredit(go.g)]
    IN [go1 EXCEPT !.g = addPoints(go1.g, extra)]

ExtraCreditEnd(go, f, extra) ==
    IF f.testsFailed THEN fail(go, "Tests failed.")
    ELSE [go EXCEPT !.g = addPoints(assignFullCredit(go.g), extra)]

HackedEnd(go, f) ==
    IF IntOf(f.points2) = go.g.maxes[go.g.currentQuestion] /\ ~f.passed
    THEN [go EXCEPT !.g = assignZeroCredit(go.g)]
    ELSE [go EXCEPT !.g = addPoints(go.g, IntOf(f.points2))]

NumberPassedEnd(go, f) ==
    [go EXCEPT !.g = addPoints(go.g, CountTrue(f.results))]

Q6End(go, f) ==
    IF \E k \in 1..Len(f.results) : ~f.results[k]
    THEN [go EXCEPT !.g = assignZeroCredit(go.g)]
    ELSE go

ExecuteEnd(go, class, f, extra) ==
    CASE class = "PassAllTestsQuestion" -> PassAllEnd(go, f)
      [] class = "ExtraCreditPassAllTestsQuestion" -> ExtraCreditEnd(go, f, extra)
      [] class = "HackedPartialCreditQuestion" -> HackedEnd(go, f)
      [] class = "Q6PartialCreditQuestion" -> Q6End(go, f)
      [] class = "PartialCreditQuestion" -> go
      [] OTHER -> NumberPassedEnd(go, f)

\* execute still has a thunk to call.
InLoop(f, tests) == f.ti <= Len(tests) /\ ~f.stopped

----------------------------------------------------------------------------
(* autograder.py: question discovery and the construction of Grades.        *)

RECURSIVE getDepends(_, _)
RECURSIVE PrependDepends(_, _, _)
\* The for loop of getDepends: allDeps = getDepends(d) + allDeps for each d.
PrependDepends(dep, ds, allDeps) ==
    IF ds = <<>> THEN allDeps
    ELSE PrependDepends(dep, Tail(ds), getDepends(dep, Head(ds)) \o allDeps)

\* A list without its repeated entries, the first entry of each kept.
RECURSIVE Deduplicated(_)
Deduplicated(qs) ==
    IF qs = <<>> THEN <<>>
    ELSE LET front == Deduplicated(SubSeq(qs, 1, Len(qs) - 1))
             last == qs[Len(qs)]
         IN IF \E k \in 1..Len(front) : front[k] = last THEN front
            ELSE Append(front, last)

\* Faulty variant: a dependency shared by several questions listed once.
getDependsDeduplicated(dep, question) ==
    Deduplicated(PrependDepends(dep, dep[question], <<question>>))

getDepends(dep, question) == PrependDepends(dep, dep[question], <<question>>)

\* The questions a question reaches through `depends` in at most n steps.
RECURSIVE Reach(_, _, _)
Reach(dep, S, n) ==
    IF n = 0 THEN S
    ELSE Reach(dep, S \cup UNION {Range(dep[q]) : q \in S}, n - 1)

Acyclic(dep) ==
    \A q \in Ids : q \notin Reach(dep, Range(dep[q]), Cardinality(Ids))

\* The `order` field of the root CONFIG, or the sorted directory listing.
Orders == {s \in SeqsUpTo(Ids, Cardinality(Ids)) :
              Len(s) >= 1 /\ \A i, j \in 1..Len(s) : i # j => s[i] # s[j]}

getTestSubdirs(dep, toGrade, order) ==
    IF toGrade # None THEN getDepends(dep, toGrade) ELSE order

\* evaluate's addPrereq loop, run only when questionToGrade is None.
Prereqs(dep, toGrade) ==
    [q \in Ids |-> IF toGrade = None THEN Range(dep[q]) ELSE {}]

\* Grades.__init__ followed by evaluate's addPrereq calls.
NewGrades(subdirs, maxPts, dep, toGrade, muteOutput, gsOutput) ==
    [questions |-> subdirs,
     maxes |-> [q \in Range(subdirs) |-> maxPts[q]],
     points |-> [q \in Ids |-> 0],
     messages |-> [q \in Range(subdirs) |-> <<>>],
     sane |-> TRUE,
     currentQuestion |-> None,
     mute |-> muteOutput,
     gsOutput |-> gsOutput,
     prereqs |-> Prereqs(dep, toGrade)]

InitRun(subdirs, maxPts, muteOutput, gsOutput) ==
    /\ grades = NewGrades(subdirs, maxPts, depends, questionToGrade, muteOutput,
                          gsOutput)
    /\ artifact = <<>>
    /\ io = Imported(Terminal)
    /\ completedQuestions = {}
    /\ qi = 1
    /\ pc = "loop"
    /\ frame = NewFrame
    /\ log = <<>>
    /\ escaped = "none"

\* The `depends` fields: up to MaxDepends other questions, none twice.
DependsChoices(q) ==
    {s \in SeqsUpTo(Ids \ {q}, MaxDepends) :
        \A i, j \in 1..Len(s) : i # j => s[i] # s[j]}

OneTest == [q \in Ids |-> <<NoPoints>>]

\* Many dependency graphs and orders, every question an all-pass question
\* with one test.
InitGraphs ==
    /\ questionToGrade \in Ids \cup {None}
    /\ depends \in [Ids -> SeqsUpTo(Ids, MaxDepends)]
    /\ \A q \in Ids : depends[q] \in DependsChoices(q)
    /\ questionToGrade # None => Acyclic(depends)
    /\ klass = [q \in Ids |-> "PassAllTestsQuestion"]
    /\ extraPoints = [q \in Ids |-> 0]
    /\ testCases = OneTest
    /\ hasSIGALRM = TRUE
    /\ \E order \in Orders, maxPts \in [Ids -> {0, MaxPoints}] :
          /\ questionToGrade # None => order = <<questionToGrade>>
          /\ InitRun(getTestSubdirs(depends, questionToGrade, order), maxPts,
                     FALSE, TRUE)

\* Hacked questions read the `points` field of their test records; the other
\* policies never look at it.
TestRecords(class) ==
    IF class = "HackedPartialCreditQuestion"
    THEN SeqsUpTo(TestDicts, MaxTests)
    ELSE SeqsUpTo({NoPoints}, MaxTests)

ExtraChoices(class) ==
    IF class = "ExtraCreditPassAllTestsQuestion" THEN 0..MaxExtra ELSE {0}

\* q depends on q1 and q2, and q2 on q1.
Diamond == [q \in Ids |-> CASE q = "q" -> <<"q1", "q2">>
                            [] q = "q2" -> <<"q1">>
                            [] OTHER -> <<>>]

\* Question q1 of every policy and test list, graded as a dependency of q, so
\* that it runs twice; q and q2 have no tests.
InitPolicies ==
    /\ questionToGrade = "q"
    /\ depends = Diamond
    /\ klass \in [Ids -> Policies]
    /\ \A q \in Ids \ {"q1"} : klass[q] = "PassAllTestsQuestion"
    /\ extraPoints \in [Ids -> 0..MaxExtra]
    /\ \A q \in Ids : extraPoints[q] \in ExtraChoices(klass[q])
    /\ testCases \in [Ids -> SeqsUpTo(TestDicts, MaxTests)]
    /\ \A q \in Ids : testCases[q] \in TestRecords(klass[q])
    /\ \A q \in Ids \ {"q1"} : testCases[q] = <<>>
    /\ hasSIGALRM = TRUE
    /\ \E maxPts \in [Ids -> 0..MaxPoints] :
          /\ \A q \in Ids \ {"q1"} : maxPts[q] = MaxPoints
          /\ InitRun(getTestSubdirs(depends, questionToGrade, <<>>), maxPts,
                     FALSE, TRUE)

\* Both platforms, with and without --mute: q2 depends on q1, and q on
\* nothing or on itself; every question an all-pass question with one test.
InitPlatforms ==
    /\ questionToGrade = None
    /\ depends \in {[Diamond EXCEPT !["q"] = own] : own \in {<<>>, <<"q">>}}
    /\ klass = [q \in Ids |-> "PassAllTestsQuestion"]
    /\ extraPoints = [q \in Ids |-> 0]
    /\ testCases = OneTest
    /\ hasSIGALRM \in BOOLEAN
    /\ \E maxPts \in [Ids -> {0, MaxPoints}], muteOutput, gsOutput \in BOOLEAN :
          InitRun(getTestSubdirs(depends, questionToGrade, <<"q1", "q2", "q">>),
                  maxPts, muteOutput, gsOutput)

Init ==
    (InitGraphs \/ InitPolicies \/ InitPlatforms) /\ ParserIdle /\ EvalIdle /\ MoreIdle

----------------------------------------------------------------------------
(* grading.py: Grades.grade, one action per turn of its loop; a turn that   *)
(* calls the question is split at the thunk calls of Question.execute.      *)

\* Faulty variant: the intersection with the completed set instead of the difference.
IncompletedAsIntersection(g, q, completed) == g.prereqs[q] \cap completed

\* prereqs[q].difference(completedQuestions)
Incompleted(g, q, completed) == g.prereqs[q] \ completed

\* Faulty variant: the comparison the wrong way round.
CompleteFlipped(g, q, completed) ==
    IF g.points[q] <= g.maxes[q] THEN completed \cup {q} ELSE completed

\* if self.points[q] >= self.maxes[q]: completedQuestions.add(q)
Complete(g, q, completed) ==
    IF g.points[q] >= g.maxes[q] THEN completed \cup {q} ELSE completed

\* A finished turn: the question, whether it was called, the completed set
\* it met, its points before and after, what its thunks returned, what the
\* call raised and whether that was a timeout, the messages the turn
\* recorded, and what the except clause itself raised.
TurnRecord(q, att, done, before, f, raised, cause, timeout, end, msgs, esc) ==
    [q |-> q, attempted |-> att, completed |-> done,
     before |-> before, results |-> f.results, invoked |-> f.invoked,
     raised |-> raised, cause |-> cause,
     timeout |-> timeout, end |-> end, msgs |-> msgs, esc |-> esc]

\* Faulty variant: the completion test made for a skipped question too.
AfterSkipCompletionTest(g, q, completed) == Complete(g, q, completed)

\* continue: the rest of the turn, the completion test included, is left out.
AfterSkip(g, q, completed) == completed

\* The prerequisite branch: the question is not called.
GradeSkip ==
    /\ pc = "loop"
    /\ qi <= Len(grades.questions)
    /\ LET q == grades.questions[qi]
           incompleted == Incompleted(grades, q, completedQuestions)
       IN /\ incompleted # {}
          /\ grades' = [grades EXCEPT !.currentQuestion = q]
          /\ log' = Append(log, TurnRecord(q, FALSE, completedQuestions,
                                           grades.points[q], NewFrame, "none", "none",
                                           FALSE,
                                           grades.points[q], <<>>, "none"))
    /\ completedQuestions' = AfterSkip(grades, grades.questions[qi],
                                       completedQuestions)
    /\ io' = GraderPrints(io)
    /\ qi' = qi + 1
    /\ UNCHANGED <<configVars, sideVars, artifact, pc, frame, escaped>>

\* mutePrint, then TimeoutFunction calls the question's execute, which runs
\* up to its first thunk.
GradeCall ==
    /\ pc = "loop"
    /\ qi <= Len(grades.questions)
    /\ LET q == grades.questions[qi]
           g1 == [grades EXCEPT !.currentQuestion = q]
       IN /\ Incompleted(grades, q, completedQuestions) = {}
          /\ io' = IF grades.mute THEN mutePrint(GraderPrints(io))
                   ELSE GraderPrints(io)
          /\ grades' = ExecuteBegin(g1, klass[q])
          /\ frame' = [NewFrame EXCEPT !.before = grades.points[q],
                                       !.msgStart = Len(grades.messages[q])]
    /\ pc' = "execute"
    /\ UNCHANGED <<configVars, sideVars, artifact, completedQuestions, qi, log, escaped>>

\* The finally clause and the rest of the turn, after the call returned
\* (raised = "none") or its exception was handled (esc: what the handler
\* itself raised).
EndTurn(go, raised, cause, timeout, esc) ==
    LET q == grades.questions[qi]
        g == go.g
        o1 == IF g.mute THEN unmutePrint(go.o) ELSE go.o
    IN /\ io' = IF esc # "none" THEN o1 ELSE GraderPrints(o1)
       /\ grades' = g
       /\ escaped' = esc
       /\ log' = Append(log, TurnRecord(q, TRUE, completedQuestions, frame.before,
                                        frame, raised, cause, timeout,
                                        g.points[q],
                                        SubSeq(g.messages[q], frame.msgStart + 1,
                                               Len(g.messages[q])),
                                        esc))
       /\ IF esc # "none"
          THEN /\ pc' = "crashed"
               /\ UNCHANGED <<completedQuestions, qi>>
          ELSE /\ pc' = "loop"
               /\ qi' = qi + 1
               /\ completedQuestions' = Complete(g, q, completedQuestions)
       /\ UNCHANGED <<configVars, sideVars, artifact>>

\* The next thunk returns: EvalTest.execute, then the rest of the loop body.
RunThunk ==
    /\ pc = "execute"
    /\ LET q == grades.questions[qi]
       IN /\ InLoop(frame, testCases[q])
          /\ \E testResult \in BOOLEAN :
                LET go == LoopBodyLedger(EvalTestExecute([g |-> grades, o |-> io],
                                                         testResult),
                                         klass[q], testResult)
                IN /\ grades' = go.g
                   /\ io' = go.o
                   /\ frame' = AfterThunk(frame, klass[q], testCases[q][frame.ti],
                                          testResult)
    /\ UNCHANGED <<configVars, sideVars, artifact, completedQuestions, qi, pc, log,
                   escaped>>

\* What the student's code raises inside a thunk's exec or eval: IndexError,
\* for which ERROR_HINT_MAP has a hint on q1 and none on the other questions.
Causes == {"IndexError"}

\* The next thunk raises: evalCode's Exception for an exception of the
\* student's code (the cause), or an exception that is not an Exception
\* (SystemExit) from the student's code.
ThunkRaises ==
    /\ pc = "execute"
    /\ LET q == grades.questions[qi]
       IN /\ InLoop(frame, testCases[q])
          /\ \E kind \in {"Exception", "BaseException"} :
             \E cause \in IF kind = "Exception" THEN Causes ELSE {"SystemExit"} :
                LET h == Handler([g |-> grades, o |-> io], q, kind)
                IN EndTurn(h.go, kind, cause, FALSE, h.raised)
    /\ UNCHANGED frame

\* SIGALRM arrives while the question runs: handle_timeout raises
\* TimeoutFunctionException, which evalCode turns into an Exception when it
\* is raised inside a thunk's exec or eval.
AlarmTimeout ==
    /\ pc = "execute"
    /\ hasSIGALRM
    /\ LET q == grades.questions[qi]
       IN \E kind \in {"Exception", "TimeoutFunctionException"} :
          \E o \in IF kind = "Exception" THEN {io}
                    ELSE InterruptedIO(io, grades.mute) :
             /\ kind = "Exception" => InLoop(frame, testCases[q])
             /\ LET h == Handler([g |-> grades, o |-> o], q, kind)
                IN EndTurn(h.go, kind, "TimeoutFunctionException", TRUE, h.raised)
    /\ UNCHANGED frame

\* execute finishes and TimeoutFunction returns.
ExecuteReturn ==
    /\ pc = "execute"
    /\ LET q == grades.questions[qi]
       IN /\ ~InLoop(frame, testCases[q])
          /\ EndTurn(ExecuteEnd([g |-> grades, o |-> io], klass[q], frame,
                                extraPoints[q]),
                     "none", "none", FALSE, "none")
    /\ UNCHANGED frame

\* Without SIGALRM, execute finishes and TimeoutFunction then finds the time
\* elapsed to be over the timeout and raises TimeoutFunctionException.
LateTimeout ==
    /\ pc = "execute"
    /\ ~hasSIGALRM
    /\ LET q == grades.questions[qi]
       IN /\ ~InLoop(frame, testCases[q])
          /\ LET go == ExecuteEnd([g |-> grades, o |-> io], klass[q], frame,
                                  extraPoints[q])
                 h == Handler(go, q, "TimeoutFunctionException")
             IN EndTurn(h.go, "TimeoutFunctionException",
                        "TimeoutFunctionException", TRUE, h.raised)
    /\ UNCHANGED frame

\* The loop is over: the report is printed.
GradeReport ==
    /\ pc = "loop"
    /\ qi > Len(grades.questions)
    /\ pc' = "done"
    /\ artifact' = IF grades.gsOutput
                   THEN <<produceGradeScopeOutput(grades)>>
                   ELSE artifact
    /\ io' = GraderPrints(io)
    /\ UNCHANGED <<configVars, sideVars, grades, completedQuestions, qi,
                   frame, log, escaped>>

Next ==
    \/ GradeSkip
    \/ GradeCall
    \/ RunThunk
    \/ ThunkRaises
    \/ AlarmTimeout
    \/ ExecuteReturn
    \/ LateTimeout
    \/ GradeReport

Spec == Init /\ [][Next]_vars

----------------------------------------------------------------------------
(* Properties of Grades.grade and of the grading policies.                  *)

Turns == 1..Len(log)

AllTrue(results) == \A k \in 1..Len(results) : results[k]

\* A turn in which the question of the given policy was called and its
\* execute returned.
Returned(i, class) ==
    /\ log[i].attempted
    /\ klass[log[i].q] = class
    /\ log[i].raised = "none"
    /\ Len(log[i].results) = Len(testCases[log[i].q])

TerminatedMessage == escape("FAIL: Terminated with a string exception.")

ExceptionMessage(kind) == escape("FAIL: Exception raised: " \o StrOfInst(kind))

\* C2: a question with a prerequisite that is not in the completed set at
\* its turn is not called, and its points are 0 from then on; a question is
\* being called only when all its prerequisites are completed.
C2_PrereqGating ==
    /\ \A i \in Turns :
          grades.prereqs[log[i].q] \ log[i].completed # {} =>
              /\ ~log[i].attempted
              /\ grades.points[log[i].q] = 0
    /\ pc = "execute" =>
          grades.prereqs[grades.questions[qi]] \subseteq completedQuestions

\* A question was skipped because its prerequisite had been called and had
\* not reached its max, and the run is over.
C2_Witness ==
    /\ pc = "done"
    /\ \E i \in Turns : \E j \in 1..(i - 1) :
          /\ ~log[i].attempted
          /\ log[j].attempted
          /\ log[j].q \in grades.prereqs[log[i].q] \ log[i].completed

\* Question p was called in a turn before turn n and ended with points >= max.
ReachedMax(p, n) ==
    \E j \in 1..(n - 1) :
        /\ log[j].q = p
        /\ log[j].attempted
        /\ log[j].end >= grades.maxes[p]

\* C3: a question is in the completed set only if it was called and ended
\* with points >= max; a question is called only if every prerequisite was
\* called and ended with points >= max.
C3_CompletedOnlyAtMax ==
    /\ \A q \in completedQuestions : ReachedMax(q, Len(log) + 1)
    /\ \A i \in Turns :
          log[i].attempted => \A p \in grades.prereqs[log[i].q] : ReachedMax(p, i)
    /\ pc = "execute" =>
          \A p \in grades.prereqs[grades.questions[qi]] : ReachedMax(p, Len(log) + 1)

\* A question is being called whose prerequisite has a positive max and so
\* had to earn it.
C3_Witness ==
    /\ pc = "execute"
    /\ \E p \in grades.prereqs[grades.questions[qi]] :
          /\ grades.maxes[p] > 0
          /\ p \in completedQuestions

\* C4: when the call of a question raises, the question ends with 0 points
\* and a failure message, nothing leaves Grades.grade, and every later
\* question gets its turn.
C4_Isolation ==
    /\ escaped = "none"
    /\ \A i \in Turns :
          log[i].raised # "none" =>
              /\ log[i].end = 0
              /\ log[i].msgs # <<>>
              /\ log[i].esc = "none"
              /\ pc = "done" => Len(log) = Len(grades.questions)

C6_AllPass ==
    \A i \in Turns :
        Returned(i, "PassAllTestsQuestion") =>
            log[i].end = IF AllTrue(log[i].results)
                         THEN grades.maxes[log[i].q] ELSE 0

\* An all-pass question whose first thunk failed and whose second passed.
C6_Witness ==
    \E i \in Turns :
        /\ Returned(i, "PassAllTestsQuestion")
        /\ log[i].results = <<FALSE, TRUE>>
        /\ grades.maxes[log[i].q] > 0

\* Twice the sum of the `points` of the test records tests[k], k in K.
RECURSIVE Points2Of(_, _)
Points2Of(tests, K) ==
    IF K = {} THEN 0
    ELSE LET k == CHOOSE x \in K : TRUE
         IN (IF tests[k].hasPoints THEN tests[k].points2 ELSE 0)
            + Points2Of(tests, K \ {k})

Passing(i) == {k \in 1..Len(log[i].results) : log[i].results[k]}

\* C7 as stated: the points are 0 when the tests' points sum to max and a
\* test failed, and the sum of the points of the passing tests otherwise.
C7_PartialAsStated ==
    \A i \in Turns :
        Returned(i, "HackedPartialCreditQuestion") =>
            LET tests == testCases[log[i].q]
            IN IF /\ Points2Of(tests, 1..Len(tests)) = 2 * grades.maxes[log[i].q]
                  /\ ~AllTrue(log[i].results)
               THEN log[i].end = 0
               ELSE 2 * log[i].end = Points2Of(tests, Passing(i))

\* C7 amended: with s the sum of the points of the passing tests that have
\* a `points` field, the points are 0 when int(s) = max and a test without
\* a `points` field failed, and int(s) otherwise.
C7_PartialCredit ==
    \A i \in Turns :
        Returned(i, "HackedPartialCreditQuestion") =>
            LET tests == testCases[log[i].q]
                s2 == Points2Of(tests, Passing(i))
                plainFailed == \E k \in 1..Len(tests) :
                                  ~tests[k].hasPoints /\ ~log[i].results[k]
            IN log[i].end = IF s2 \div 2 = grades.maxes[log[i].q] /\ plainFailed
                            THEN 0 ELSE s2 \div 2

\* The special case: the passing tests earn max and a test without points
\* failed, so the points are 0.
C7_Witness ==
    \E i \in Turns :
        /\ Returned(i, "HackedPartialCreditQuestion")
        /\ grades.maxes[log[i].q] > 0
        /\ Points2Of(testCases[log[i].q], Passing(i)) \div 2 = grades.maxes[log[i].q]
        /\ \E k \in 1..Len(log[i].results) :
              ~testCases[log[i].q][k].hasPoints /\ ~log[i].results[k]
        /\ log[i].end = 0

\* C8: after execute of an extra-credit question the points are max + extra
\* if every thunk returned true and 0 if one returned false.
C8_ExtraCredit ==
    \A i \in Turns :
        Returned(i, "ExtraCreditPassAllTestsQuestion") =>
            log[i].end = IF AllTrue(log[i].results)
                         THEN grades.maxes[log[i].q] + extraPoints[log[i].q]
                         ELSE 0

\* An extra-credit question with a bonus earned it, and one lost it.
C8_Witness ==
    \E i \in Turns :
        /\ Returned(i, "ExtraCreditPassAllTestsQuestion")
        /\ extraPoints[log[i].q] > 0
        /\ log[i].results = <<TRUE, FALSE>>
        /\ log[i].before > grades.maxes[log[i].q]

\* C9: after execute of a count-of-passes question the points are the
\* number of thunks that returned true.
C9_CountOfPasses ==
    \A i \in Turns :
        Returned(i, "NumberPassedQuestion") =>
            log[i].end = CountTrue(log[i].results)

\* C10: while execute runs its thunks the question's points are 0, whatever
\* they were before, and two executes of a question whose thunks return the
\* same end with the same points.
C10_CleanBaseline ==
    /\ pc = "execute" => grades.points[grades.questions[qi]] = 0
    /\ \A i, j \in Turns :
          /\ log[i].q = log[j].q
          /\ Returned(i, klass[log[i].q])
          /\ Returned(j, klass[log[j].q])
          /\ log[i].results = log[j].results
          => log[i].end = log[j].end

\* The positions 1..n in order.
OneTo(n) == [k \in 1..n |-> k]

\* A turn whose call of execute returned.
Finished(i) == log[i].attempted /\ log[i].raised = "none"

\* C11 as stated: the thunks of a question are called in the order of
\* testCases, each exactly once, whatever the earlier thunks returned.
C11_EveryThunkOnce ==
    \A i \in Turns :
        Finished(i) => log[i].invoked = OneTo(Len(testCases[log[i].q]))

\* The number of thunks execute calls: all of them, except that
\* PartialCreditQuestion stops after the first that returns false.
CalledThunks(class, results, n) ==
    IF class = "PartialCreditQuestion" /\ \E k \in 1..Len(results) : ~results[k]
    THEN CHOOSE k \in 1..Len(results) :
             ~results[k] /\ \A j \in 1..(k - 1) : results[j]
    ELSE n

\* C11 amended: the thunks are called one at a time in the order of
\* testCases, each at most once; when execute returns every thunk has been
\* called, except that PartialCreditQuestion returns at the first thunk that
\* returns false and calls none of the later ones.
C11_ThunksInOrder ==
    /\ frame.invoked = OneTo(frame.ti - 1)
    /\ Len(frame.results) = Len(frame.invoked)
    /\ \A i \in Turns :
          /\ log[i].invoked = OneTo(Len(log[i].invoked))
          /\ Len(log[i].results) = Len(log[i].invoked)
          /\ Len(log[i].invoked) <= Len(testCases[log[i].q])
          /\ Finished(i) =>
                Len(log[i].invoked) =
                    CalledThunks(klass[log[i].q], log[i].results,
                                 Len(testCases[log[i].q]))

\* A PartialCreditQuestion with two thunks returned after its first thunk
\* failed, and another policy called its second thunk after the first failed.
C11_Witness ==
    \E i, j \in Turns :
        /\ Finished(i)
        /\ klass[log[i].q] = "PartialCreditQuestion"
        /\ Len(testCases[log[i].q]) = 2
        /\ log[i].results = <<FALSE>>
        /\ Finished(j)
        /\ log[j].results = <<TRUE, FALSE>>

\* The questions of a list, each once, in the order of their first entry.
RECURSIVE Distinct(_)
Distinct(qs) ==
    IF qs = <<>> THEN <<>>
    ELSE LET front == Distinct(SubSeq(qs, 1, Len(qs) - 1))
             last == qs[Len(qs)]
         IN IF last \in Range(front) THEN front ELSE Append(front, last)

\* C16: the artifact's score is the sum of the questions' points, its
\* max_score the sum of their max points, and tests has one entry per
\* question, in question order, with the question's points and max.
C16_GradeScopeTotals ==
    pc = "done" /\ grades.gsOutput =>
        /\ artifact # <<>>
        /\ LET a == artifact[1]
               qs == Distinct(grades.questions)
           IN /\ a.score = SumOver(grades.points, Range(qs))
              /\ a.max_score = SumOver(grades.maxes, Range(qs))
              /\ Len(a.tests) = Len(qs)
              /\ \A i \in 1..Len(qs) :
                    /\ i \in DOMAIN a.tests
                    /\ a.tests[i] = [name |-> qs[i],
                                     score |-> grades.points[qs[i]],
                                     max_score |-> grades.maxes[qs[i]]]

\* The key under which ERROR_HINT_MAP registers a hint for an exception.
HintKey(cause) == "<type 'exceptions." \o cause \o "'>"

Registered(q, cause) ==
    q \in DOMAIN ERROR_HINT_MAP /\ HintKey(cause) \in DOMAIN ERROR_HINT_MAP[q]

\* C19: when the call of a question raises, the question ends with 0 points
\* and, if ERROR_HINT_MAP has a hint for the question and the exception, the
\* hint is among the question's messages.
C19_HintAdded ==
    \A i \in Turns :
        log[i].raised # "none" =>
            /\ log[i].end = 0
            /\ Registered(log[i].q, log[i].cause) =>
                  escape(ERROR_HINT_MAP[log[i].q][HintKey(log[i].cause)])
                      \in Range(log[i].msgs)

\* How often question x is in the list l.
Occurrences(l, x) == Cardinality({i \in 1..Len(l) : l[i] = x})

\* The number of paths of the `depends` graph from one question to another.
RECURSIVE PathCount(_, _, _)
RECURSIVE PathsThrough(_, _, _)
PathsThrough(dep, ds, to) ==
    IF ds = <<>> THEN 0
    ELSE PathCount(dep, Head(ds), to) + PathsThrough(dep, Tail(ds), to)

PathCount(dep, from, to) ==
    IF from = to THEN 1 ELSE PathsThrough(dep, dep[from], to)

\* Everything a question depends on, directly or through other questions.
AllDepends(dep, q) == Reach(dep, Range(dep[q]), Cardinality(Ids))

\* C21: with a single question requested and an acyclic `depends` graph,
\* the list of questions ends with the requested question, every entry has
\* each question it depends on, directly or transitively, somewhere before
\* it, and a question is listed once per path that leads from the requested
\* question to it.
C21_GetDepends ==
    questionToGrade # None /\ Acyclic(depends) =>
        LET l == grades.questions
        IN /\ Len(l) >= 1
           /\ l[Len(l)] = questionToGrade
           /\ \A i \in 1..Len(l) :
                 \A d \in AllDepends(depends, l[i]) :
                    \E j \in 1..(i - 1) : l[j] = d
           /\ \A x \in Ids :
                 Occurrences(l, x) = PathCount(depends, questionToGrade, x)

\* q depends on q1 and q2, and q2 on q1: q1 is listed twice, before q2 and
\* after it, and the run has finished.
C21_Witness ==
    /\ questionToGrade = "q"
    /\ depends = Diamond
    /\ grades.questions = <<"q1", "q2", "q1", "q">>
    /\ pc = "done"

\* The turns of the loop that were given to question x.
TurnsOf(x) == {i \in Turns : log[i].q = x}

\* C22: the turns of Grades.grade follow the list of questions; when the
\* loop is over every question of the list has had exactly one turn, in
\* which it was either skipped or called; and a question in the completed
\* set has been called.
C22_EachQuestionOnce ==
    /\ \A i \in Turns : log[i].q = grades.questions[i]
    /\ \A x \in completedQuestions : \E i \in TurnsOf(x) : log[i].attempted
    /\ pc = "done" =>
          \A x \in Range(grades.questions) : Cardinality(TurnsOf(x)) = 1

\* C27: no line the grader prints (question header, ledger message, score
\* line, report) goes to the WritableNull; with muteOutput, output is muted
\* while the grading function of a question runs; and between the turns,
\* after the loop and after a crash output is unmuted and sys.stdout is the
\* terminal again.
C27_MutedWhileGrading ==
    /\ ~io.discarded
    /\ grades.mute /\ pc = "execute" =>
          io.MUTED /\ io.stdout = WritableNull /\ io.ORIGINAL_STDOUT = Terminal
    /\ pc \in {"loop", "done", "crashed"} => ~io.MUTED /\ io.stdout = Terminal

\* A muted run is over in which one question timed out, one raised and one
\* returned, each with messages recorded.
C27_Witness ==
    /\ grades.mute
    /\ pc = "done"
    /\ \E i, j, k \in Turns :
          /\ log[i].timeout /\ log[i].msgs # <<>>
          /\ log[j].raised = "Exception" /\ ~log[j].timeout /\ log[j].msgs # <<>>
          /\ log[k].attempted /\ log[k].raised = "none" /\ log[k].msgs # <<>>

\* C29: with a single question requested, every question it depends on has
\* had its turn before the requested question's, and the requested question
\* is called only with each question of its `depends` field in the
\* completed set.
C29_SingleModeGating ==
    questionToGrade # None =>
        \A i \in Turns :
            log[i].q = questionToGrade =>
                /\ \A d \in AllDepends(depends, questionToGrade) :
                      \E j \in 1..(i - 1) : log[j].q = d
                /\ log[i].attempted =>
                      Range(depends[questionToGrade]) \subseteq log[i].completed

\* The turn at which question x is listed, 0 when it is not listed.
Listed(x) ==
    IF \E k \in 1..Len(grades.questions) : grades.questions[k] = x
    THEN CHOOSE k \in 1..Len(grades.questions) : grades.questions[k] = x
    ELSE 0

\* A question whose prerequisites cannot all be complete at its turn: it is
\* on a cycle of `depends`, or one of its prerequisites is listed after it
\* or not at all.
Unreachable(x) ==
    \/ x \in AllDepends(depends, x)
    \/ \E d \in Range(depends[x]) : Listed(d) = 0 \/ Listed(d) > Listed(x)

\* The part of C30 that is about states.
C30_Skipped ==
    questionToGrade = None =>
        \A i \in Turns :
            /\ ~log[i].attempted =>
                  /\ log[i].end = 0
                  /\ grades.points[log[i].q] = 0
                  /\ log[i].q \notin completedQuestions
                  /\ \A j \in Turns :
                        log[i].q \in AllDepends(depends, log[j].q) =>
                            ~log[j].attempted
            /\ Unreachable(log[i].q) => ~log[i].attempted

\* How far Grades.grade has got: the turn, and within a turn the thunk.
Progress ==
    IF pc \in {"done", "crashed"} THEN (Len(grades.questions) + 2) * (MaxTests + 4)
    ELSE qi * (MaxTests + 4) + (IF pc = "execute" THEN frame.ti ELSE 0)

\* C30: in a full run a skipped question has 0 points and is not in the
\* completed set, whatever its max points, and every question that depends
\* on it, directly or through other questions, is skipped as well; a
\* question on a cycle of `depends`, or with a prerequisite listed after it
\* or not listed, is skipped; and every step of Grades.grade takes it
\* further through a list that is finite, so that it terminates.
C30_SkippingSafe ==
    /\ []C30_Skipped
    /\ [][Progress' > Progress /\ Progress' <= (Len(grades.questions) + 2) * (MaxTests + 4)]_vars

\* A full run is over in which q1 and q2 depend on each other and q on q1,
\* q1 has max points 0, and all three were skipped.
C30_Witness ==
    /\ questionToGrade = None
    /\ pc = "done"
    /\ depends["q1"] = <<"q2">>
    /\ depends["q2"] = <<"q1">>
    /\ depends["q"] = <<"q1">>
    /\ grades.maxes = [x \in Ids |-> IF x = "q1" THEN 0 ELSE MaxPoints]
    /\ Len(log) = 3
    /\ \A i \in Turns : ~log[i].attempted

----------------------------------------------------------------------------
(* One EvalTest on its own: the test case of a question with one test is    *)
(* executed as the thunk of the question, or its solution file is written   *)
(* and the test then executed against the file.                             *)

Modules == {[x |-> <<>>], [x |-> <<1>>]}

\* Solution records: without a result field, and with one.
Solutions ==
    {<<>>} \cup {SetField(<<>>, Result, v) : v \in {<<"5">>, <<"4">>, <<>>}}

InitEval ==
    /\ etest \in {EvalTestPostInit([preamble |-> pre, test |-> t,
                                    success |-> "<success>",
                                    failure |-> "<failure>"]) :
                      pre \in Preambles, t \in TestExprs}
    /\ moduleDict \in Modules
    /\ solutionDict \in Solutions
    /\ solFile = <<>>
    /\ eout = None
    /\ epc = "ready"
    /\ ran = <<>>
    /\ calls = <<>>
    /\ ParserIdle
    /\ MoreIdle
    /\ questionToGrade \in {"q1", "q"}
    /\ depends = [q \in Ids |-> <<>>]
    /\ klass = [q \in Ids |-> "PassAllTestsQuestion"]
    /\ extraPoints = [q \in Ids |-> 0]
    /\ testCases = OneTest
    /\ hasSIGALRM = TRUE
    /\ \E p \in 0..MaxPoints :
          /\ grades = [NewGrades(<<questionToGrade>>, [q \in Ids |-> MaxPoints],
                                 depends, questionToGrade, FALSE, FALSE)
                          EXCEPT !.currentQuestion = questionToGrade,
                                 !.points[questionToGrade] = p]
          /\ frame = [NewFrame EXCEPT !.before = p]
    /\ io = Imported(Terminal)
    /\ artifact = <<>>
    /\ completedQuestions = {}
    /\ qi = 1
    /\ pc = "execute"
    /\ log = <<>>
    /\ escaped = "none"

\* The thunk of the test case: testCase.execute(grades, moduleDict,
\* solutionDict).
EvalExecute ==
    /\ epc = "ready"
    /\ LET r == execute([g |-> grades, o |-> io], etest, moduleDict, solutionDict)
       IN /\ grades' = r.go.g
          /\ io' = r.go.o
          /\ eout' = r.out
          /\ epc' = IF r.out.raised = "none" THEN "returned" ELSE "raised"
    /\ moduleDict' = ModuleAfter(etest, moduleDict)
    /\ ran' = Append(ran, [test |-> etest, module |-> moduleDict])
    /\ UNCHANGED <<configVars, parserVars, artifact, completedQuestions, qi, pc, frame, log,
                   escaped, etest, solutionDict, solFile, calls, moreVars>>

\* The thunk returned and the loop of Question.execute goes on to the next
\* test case of the question, which gets the same moduleDict.
NextTestCase ==
    /\ epc = "returned"
    /\ Len(ran) < MaxTests
    /\ etest' \in {EvalTestPostInit([preamble |-> pre, test |-> t,
                                     success |-> "<success>",
                                     failure |-> "<failure>"]) :
                       pre \in Preambles, t \in TestExprs}
    /\ eout' = None
    /\ epc' = "ready"
    /\ frame' = [frame EXCEPT !.msgStart = Len(grades.messages[grades.currentQuestion])]
    /\ UNCHANGED <<configVars, parserVars, artifact, grades, io, completedQuestions, qi,
                   pc, log, escaped, moduleDict, solutionDict, solFile, calls, ran,
                   moreVars>>

\* What execute raised reaches the except clauses of Grades.grade.
GradeCatches ==
    /\ epc = "raised"
    /\ LET h == Handler([g |-> grades, o |-> io], grades.currentQuestion,
                        eout.raised)
       IN /\ grades' = h.go.g
          /\ io' = h.go.o
          /\ escaped' = h.raised
    /\ epc' = "caught"
    /\ UNCHANGED <<configVars, parserVars, artifact, completedQuestions, qi, pc, frame, log,
                   etest, moduleDict, solutionDict, solFile, eout, calls, ran, moreVars>>

\* testCase.writeSolution(moduleDict, filePath)
WriteSolution ==
    /\ epc = "ready"
    /\ LET w == writeSolution(etest, moduleDict, <<"t">>)
       IN /\ solFile' = w.file
          /\ eout' = w.out
    /\ epc' = "wrote"
    /\ UNCHANGED <<configVars, parserVars, gradeVars, etest, moduleDict,
                   solutionDict, calls, ran, moreVars>>

\* The solution file on disk is parsed and the test executed against it.
RunWithSolutionFile ==
    /\ epc = "wrote"
    /\ LET p == parse(solFile)
       IN IF p.ok
          THEN LET r == execute([g |-> grades, o |-> io], etest, moduleDict,
                                p.test.fields)
               IN /\ solutionDict' = p.test.fields
                  /\ grades' = r.go.g
                  /\ io' = r.go.o
                  /\ eout' = r.out
                  /\ moduleDict' = ModuleAfter(etest, moduleDict)
          ELSE /\ eout' = evalRaise(p.error, p.message)
               /\ UNCHANGED <<solutionDict, grades, io, moduleDict>>
    /\ epc' = "reran"
    /\ UNCHANGED <<configVars, parserVars, artifact, completedQuestions, qi, pc, frame, log,
                   escaped, etest, solFile, calls, ran, moreVars>>

NextEval ==
    \/ EvalExecute
    \/ NextTestCase
    \/ GradeCatches
    \/ WriteSolution
    \/ RunWithSolutionFile

SpecEval == InitEval /\ [][NextEval]_vars

\* The messages of the question since the call.
NewMessages ==
    SubSeq(grades.messages[grades.currentQuestion], frame.msgStart + 1,
           Len(grades.messages[grades.currentQuestion]))

\* The points of every question are what they were before the call.
PointsUnchanged ==
    grades.points = [q \in Ids |-> IF q = questionToGrade THEN frame.before ELSE 0]

\* C12: EvalTest.execute returns true exactly when str of the value of the
\* test expression equals the result field of the solution record; on a
\* match it appends a pass message and the expected value, on a mismatch a
\* fail message, the student's value and the expected value; the points of
\* every question stay as they were.
C12_EvalTestExecute ==
    epc = "returned" =>
        LET value == evalCode(etest, moduleDict).value
            expected == GetResult(solutionDict)
        IN /\ eout.value = (value = expected)
           /\ NewMessages =
                 IF value = expected
                 THEN <<escape("PASS: <success>"),
                        escape("\t correct result: \"" \o Text(expected) \o "\"")>>
                 ELSE <<escape("FAIL: <failure>"),
                        escape("\t student result: \"" \o Text(value) \o "\""),
                        escape("\t correct result: \"" \o Text(expected) \o "\"")>>
           /\ PointsUnchanged

\* Preamble x = 2, test x + 3 and result "5": execute returned true and the
\* message with "5" is in the ledger.
C12_Witness ==
    /\ epc = "returned"
    /\ etest.preamble = "x = 2"
    /\ etest.test = "x + 3"
    /\ GetResult(solutionDict) = <<"5">>
    /\ eout.value
    /\ frame.before > 0
    /\ escape("\t correct result: \"5\"") \in Range(NewMessages)

\* The inputs for which Python raises while it runs the preamble or
\* evaluates the test expression.
EvaluationRaises ==
    \/ etest.preamble = "x = y"
    \/ etest.test \in {"1/0", "exit()", ""}
    \/ etest.test = "x + 3" /\ etest.preamble = "" /\ moduleDict.x = <<>>

\* C13: when the preamble or the test expression raises, execute returns no
\* boolean and records nothing in the ledger: the error leaves execute, and
\* an except clause of Grades.grade then handles it, zeroing the question
\* and recording its message.
C13_ErrorPropagates ==
    /\ epc = "returned" => ~EvaluationRaises
    /\ epc \in {"raised", "caught"} =>
          /\ EvaluationRaises
          /\ eout.raised \in {"Exception", "SystemExit"}
    /\ epc = "raised" => NewMessages = <<>> /\ PointsUnchanged
    /\ epc = "caught" =>
          /\ grades.points[questionToGrade] = 0
          /\ NewMessages # <<>>
          /\ NewMessages[1] = IF eout.raised = "Exception"
                              THEN ExceptionMessage("Exception")
                              ELSE TerminatedMessage

\* The preamble raised, and the question that had points has none now.
C13_Witness ==
    /\ epc = "caught"
    /\ etest.preamble = "x = y"
    /\ eout.message = "Error in preamble: name 'y' is not defined"
    /\ frame.before > 0
    /\ grades.points[questionToGrade] = 0

\* C20: for a test whose evaluation does not raise, writeSolution returns
\* true and leaves a solution file whose result field is str of the value
\* of the test expression, and execute with the record parsed from that
\* file returns true.
C20_SolutionRoundTrip ==
    ~EvaluationRaises =>
        /\ epc = "wrote" =>
              /\ eout = [raised |-> "none", value |-> TRUE]
              /\ parse(solFile).ok
              /\ GetResult(parse(solFile).test.fields)
                    = evalCode(etest, moduleDict).value
        /\ epc = "reran" => eout = [raised |-> "none", value |-> TRUE]

\* C24: a call of evalCode leaves the caller's moduleDict with the keys and
\* bindings it had, so every test of a question is given the namespace the
\* first was given; and a test without a preamble that reads x raises
\* NameError when the namespace has no x, even after a test whose preamble
\* bound x.
C24_ModuleDictUnchanged ==
    /\ \A k \in 1..Len(ran) : ran[k].module = moduleDict
    /\ \A k \in 1..Len(ran) :
          /\ k = Len(ran)
          /\ epc \in {"returned", "raised", "caught"}
          /\ ran[k].test.preamble = ""
          /\ ran[k].test.test = "x + 3"
          /\ ran[1].module.x = <<>>
          => /\ epc # "returned"
             /\ eout.message = "Error evaluating test: name 'x' is not defined"

\* In a namespace without x, a test with preamble x = 2 returned, and the
\* next test, x + 3 without a preamble, raised.
C24_Witness ==
    /\ Len(ran) = 2
    /\ ran[1].module.x = <<>>
    /\ ran[1].test.preamble = "x = 2"
    /\ ran[2].test.preamble = ""
    /\ ran[2].test.test = "x + 3"
    /\ epc = "raised"

----------------------------------------------------------------------------
(* The parser on its own: a file is parsed, and the record written back.    *)

InitParser ==
    /\ content \in Files
    /\ parsed = None
    /\ emitted = None
    /\ ppc = "file"
    /\ questionToGrade = None
    /\ depends = [q \in Ids |-> <<>>]
    /\ klass = [q \in Ids |-> "PassAllTestsQuestion"]
    /\ extraPoints = [q \in Ids |-> 0]
    /\ testCases = [q \in Ids |-> <<>>]
    /\ hasSIGALRM = TRUE
    /\ InitRun(<<"q1">>, [q \in Ids |-> 0], FALSE, FALSE)
    /\ EvalIdle
    /\ MoreIdle

NextParser == Parse \/ Emit

SpecParser == InitParser /\ [][NextParser]_vars

\* C1: the record of a file that parse accepts, written back unmodified by
\* emitTestDict, gives the text of the file.
C1_RoundTrip == ppc = "emitted" => emitted = content

\* The lines the parser looks at: the file without its comments.
StrippedLines == splitlines(removeComments(splitlines(content)))

\* C14: a file with a multi-line opener that no closing line follows is
\* rejected with ValueError, and no record is returned.
C14_Unterminated ==
    ppc \in {"parsed", "failed"} =>
        ((\E i \in 1..Len(StrippedLines) :
             /\ MatchMultiLine(StrippedLines[i]).match
             /\ \A j \in (i + 1)..Len(StrippedLines) :
                    ~MatchClose(StrippedLines[j]))
         => /\ ppc = "failed"
            /\ parsed.error = "ValueError"
            /\ "test" \notin DOMAIN parsed)

\* An opener followed by a line that is not a closing line was rejected as
\* unterminated.
C14_Witness ==
    /\ ppc = "failed"
    /\ parsed.message = "Unterminated multiline string"
    /\ Len(StrippedLines) >= 2
    /\ MatchMultiLine(StrippedLines[1]).match

\* A line that is neither blank nor a field nor an opener.
Malformed(line) ==
    ~Blank(line) /\ ~MatchOneLine(line).match /\ ~MatchMultiLine(line).match

\* The first line from i on that is outside every block and is not blank
\* and not a field: a malformed line, an opener without a closing line, or
\* Len(lines) + 1 when there is none.
RECURSIVE FirstOffending(_, _)
FirstOffending(lines, i) ==
    IF i > Len(lines) THEN i
    ELSE IF Blank(lines[i]) \/ MatchOneLine(lines[i]).match
    THEN FirstOffending(lines, i + 1)
    ELSE IF MatchMultiLine(lines[i]).match
            /\ \E j \in (i + 1)..Len(lines) : MatchClose(lines[j])
    THEN FirstOffending(lines,
                        1 + CHOOSE j \in (i + 1)..Len(lines) :
                                /\ MatchClose(lines[j])
                                /\ \A k \in (i + 1)..(j - 1) : ~MatchClose(lines[k]))
    ELSE i

\* C15: when the first offending line of a file is malformed, parse fails
\* with ValueError "Invalid format" and reports the 1-based number of that
\* line in the file.
C15_InvalidLineNumber ==
    ppc \in {"parsed", "failed"} =>
        LET n == FirstOffending(StrippedLines, 1)
        IN n <= Len(StrippedLines) /\ Malformed(StrippedLines[n]) =>
              /\ ppc = "failed"
              /\ parsed.error = "ValueError"
              /\ parsed.message = "Invalid format"
              /\ parsed.line = n
              /\ StripComment(splitlines(content)[n]) = StrippedLines[n]

\* The malformed line is the third of the file, after a field with a
\* comment, and line 3 was reported.
C15_Witness ==
    /\ ppc = "failed"
    /\ parsed.message = "Invalid format"
    /\ parsed.line = 3
    /\ Find(splitlines(content)[1], "#", 1) # 0

----------------------------------------------------------------------------
(* The print muting of util.py on its own: any sequence of mutePrint and    *)
(* unmutePrint calls, from the state of the module after import.            *)

MaxCalls == 6

\* What sys.stdout is when the calls start: the terminal, or a file the
\* output was redirected to.
Streams == {Terminal, "file"}

InitMute ==
    /\ io \in {Imported(st) : st \in Streams}
    /\ calls = <<>>
    /\ etest = None
    /\ moduleDict = None
    /\ solutionDict = None
    /\ solFile = None
    /\ eout = None
    /\ epc = "idle"
    /\ ran = <<>>
    /\ ParserIdle
    /\ MoreIdle
    /\ questionToGrade = None
    /\ depends = [q \in Ids |-> <<>>]
    /\ klass = [q \in Ids |-> "PassAllTestsQuestion"]
    /\ extraPoints = [q \in Ids |-> 0]
    /\ testCases = [q \in Ids |-> <<>>]
    /\ hasSIGALRM = TRUE
    /\ grades = NewGrades(<<"q1">>, [q \in Ids |-> 0], depends, questionToGrade,
                          FALSE, FALSE)
    /\ artifact = <<>>
    /\ completedQuestions = {}
    /\ qi = 1
    /\ pc = "loop"
    /\ frame = NewFrame
    /\ log = <<>>
    /\ escaped = "none"

\* History: the call and the muting state it found.
MutePrint ==
    /\ Len(calls) < MaxCalls
    /\ io' = mutePrint(io)
    /\ calls' = Append(calls, [call |-> "mutePrint", before |-> io])
    /\ UNCHANGED <<configVars, parserVars, evalVars, moreVars, grades,
                   completedQuestions, qi, pc, frame, log, escaped, artifact>>

UnmutePrint ==
    /\ Len(calls) < MaxCalls
    /\ io' = unmutePrint(io)
    /\ calls' = Append(calls, [call |-> "unmutePrint", before |-> io])
    /\ UNCHANGED <<configVars, parserVars, evalVars, moreVars, grades,
                   completedQuestions, qi, pc, frame, log, escaped, artifact>>

NextMute == MutePrint \/ UnmutePrint

SpecMute == InitMute /\ [][NextMute]_vars

\* The names of the calls made, in order.
CallNames == [k \in 1..Len(calls) |-> calls[k].call]

\* The muting state after call k.
After(k) == IF k = Len(calls) THEN io ELSE calls[k + 1].before

\* Output is discarded.
Muted(o) == o.stdout = WritableNull

\* C17 as stated: after mutePrint twice and unmutePrint once, from unmuted
\* output, output is still muted.
C17_StillMuted ==
    CallNames = <<"mutePrint", "mutePrint", "unmutePrint">> => Muted(io)

\* C17 amended: after mutePrint twice and unmutePrint once, from unmuted
\* output, output is not muted: the one unmutePrint restores the stream
\* that was installed before the first mutePrint.
C17_UnmutedAfterOne ==
    CallNames = <<"mutePrint", "mutePrint", "unmutePrint">> =>
        /\ ~Muted(io)
        /\ ~io.MUTED
        /\ io.stdout = calls[1].before.stdout

\* mutePrint twice, then unmutePrint once, with output muted after the
\* second mutePrint.
C17_Witness ==
    /\ CallNames = <<"mutePrint", "mutePrint", "unmutePrint">>
    /\ ~Muted(calls[1].before)
    /\ Muted(calls[3].before)

\* C18: mutePrint while muted and unmutePrint while not muted change
\* nothing; an unmutePrint while muted restores the stream that was
\* installed before the first mutePrint that took effect.
C18_SingleLevel ==
    \A k \in 1..Len(calls) :
        /\ calls[k].call = "mutePrint" /\ calls[k].before.MUTED =>
              After(k) = calls[k].before
        /\ calls[k].call = "unmutePrint" /\ ~calls[k].before.MUTED =>
              After(k) = calls[k].before
        /\ calls[k].call = "unmutePrint" /\ calls[k].before.MUTED =>
              /\ ~After(k).MUTED
              /\ \E j \in 1..(k - 1) :
                    /\ calls[j].call = "mutePrint"
                    /\ \A i \in 1..(j - 1) : calls[i].call # "mutePrint"
                    /\ After(k).stdout = calls[j].before.stdout
                    /\ After(k).stdout \in Streams

\* Output redirected to a file was muted twice over, unmuted, muted again
\* and unmuted again, and an unmutePrint came while it was not muted.
C18_Witness ==
    /\ CallNames = <<"unmutePrint", "mutePrint", "mutePrint", "unmutePrint",
                     "mutePrint", "unmutePrint">>
    /\ io.stdout = "file"

----------------------------------------------------------------------------
(* The ledger operations on their own: a Grades object with or without a    *)
(* current question, on which the operations are called in any order.       *)

MaxOps == 3

\* History: the operation and the Grades object it found.
Called(op) ==
    /\ Len(ops) < MaxOps
    /\ ops' = Append(ops, [op |-> op, before |-> grades])
    /\ UNCHANGED <<configVars, parserVars, evalVars, calls, shopVars, timerVars,
                   completedQuestions, qi, pc, frame, log, escaped, artifact>>

InitLedger ==
    /\ ops = <<>>
    /\ ParserIdle /\ EvalIdle /\ ShopIdle /\ TimerIdle
    /\ questionToGrade = None
    /\ depends = [q \in Ids |-> <<>>]
    /\ klass = [q \in Ids |-> "PassAllTestsQuestion"]
    /\ extraPoints = [q \in Ids |-> 0]
    /\ testCases = [q \in Ids |-> <<>>]
    /\ hasSIGALRM = TRUE
    /\ \E muteOutput \in BOOLEAN :
          InitRun(<<"q1", "q2">>, [q \in Ids |-> MaxPoints], muteOutput, FALSE)

\* self.currentQuestion = q, the assignment of Grades.grade's loop.
SetCurrentQuestion ==
    /\ \E q \in Range(grades.questions) :
          grades' = [grades EXCEPT !.currentQuestion = q]
    /\ UNCHANGED <<configVars, sideVars, io, completedQuestions, qi, pc, frame,
                   log, escaped, artifact>>

CallAddPoints ==
    /\ \E amt \in 1..MaxPoints : grades' = addPoints(grades, amt)
    /\ Called("addPoints")
    /\ UNCHANGED io

CallDeductPoints ==
    /\ \E amt \in 1..MaxPoints : grades' = deductPoints(grades, amt)
    /\ Called("deductPoints")
    /\ UNCHANGED io

CallAssignZeroCredit ==
    /\ grades' = assignZeroCredit(grades)
    /\ Called("assignZeroCredit")
    /\ UNCHANGED io

CallAssignFullCredit ==
    /\ grades' = assignFullCredit(grades)
    /\ Called("assignFullCredit")
    /\ UNCHANGED io

CallFail ==
    /\ LET go == fail([g |-> grades, o |-> io], "<message>")
       IN grades' = go.g /\ io' = go.o
    /\ Called("fail")

CallAddMessage ==
    /\ LET go == addMessage([g |-> grades, o |-> io], "<message>")
       IN grades' = go.g /\ io' = go.o
    /\ Called("addMessage")

NextLedger ==
    \/ SetCurrentQuestion
    \/ CallAddPoints
    \/ CallDeductPoints
    \/ CallAssignZeroCredit
    \/ CallAssignFullCredit
    \/ CallFail
    \/ CallAddMessage

SpecLedger == InitLedger /\ [][NextLedger]_vars

\* The Grades object operation k left behind.
Left(k) == IF k = Len(ops) THEN grades ELSE ops[k + 1].before

PointOperations ==
    {"addPoints", "deductPoints", "assignZeroCredit", "assignFullCredit"}

\* C23: an operation called while q is the current question leaves the
\* points and the messages of every other question as they were; a point
\* operation called while there is no current question leaves the points
\* and the messages of every question as they were.
C23_OnlyCurrentQuestion ==
    \A k \in 1..Len(ops) :
        LET b == ops[k].before
            a == Left(k)
        IN /\ \A q \in Ids :
                 q # b.currentQuestion => a.points[q] = b.points[q]
           /\ \A q \in DOMAIN b.messages :
                 q # b.currentQuestion => a.messages[q] = b.messages[q]
           /\ DOMAIN a.messages = DOMAIN b.messages
           /\ b.currentQuestion = None /\ ops[k].op \in PointOperations =>
                 a.points = b.points /\ a.messages = b.messages

\* assignFullCredit was called with no current question, addPoints with q1
\* current, and fail with q2 current while q1 held a point.
C23_Witness ==
    /\ Len(ops) = 3
    /\ ops[1].op = "assignFullCredit"
    /\ ops[1].before.currentQuestion = None
    /\ ops[2].op = "addPoints"
    /\ ops[2].before.currentQuestion = "q1"
    /\ ops[3].op = "fail"
    /\ ops[3].before.currentQuestion = "q2"
    /\ ops[3].before.points["q1"] = 1
    /\ grades.points["q1"] = 1
    /\ Len(grades.messages["q2"]) = 1

----------------------------------------------------------------------------
(* shop.py, shopSmart.py and shopAroundTown.py: the functions on their own, *)
(* each called once on an order and a list of shops.                        *)

MaxPrice == 1
MaxShops == 2

Fruits == {"apples", "limes"}

\* The price tables: some of the fruits, each with a price per pound.
PriceTables == UNION {[S -> 0..MaxPrice] : S \in SUBSET Fruits}

\* FruitShop(name, fruitPrices); the shops are named by their position.
FruitShop(name, fruitPrices) == [name |-> name, prices |-> fruitPrices]

ShopLists ==
    UNION {{[i \in 1..n |-> FruitShop(i, tables[i])] :
               tables \in [1..n -> PriceTables]} : n \in 0..MaxShops}

\* The orders looked at: (fruit, pounds) pairs.
OrderLists ==
    {<<>>, <<<<"apples", 1>>>>, <<<<"limes", 2>>>>,
     <<<<"apples", 1>>, <<"limes", 1>>>>, <<<<"limes", 1>>, <<"apples", 2>>>>}

\* FruitShop.getPriceOfOrder: the fruits the shop does not carry cost nothing.
RECURSIVE getPriceOfOrder(_, _)
getPriceOfOrder(shop, order) ==
    IF order = <<>> THEN 0
    ELSE (IF Head(order)[1] \in DOMAIN shop.prices
          THEN shop.prices[Head(order)[1]] * Head(order)[2] ELSE 0)
         + getPriceOfOrder(shop, Tail(order))

\* Python values a function returns: a FruitShop, the string "" or None.
PyShop(shop) == [type |-> "FruitShop", value |-> <<shop>>]
PyEmptyStr == [type |-> "str", value |-> <<>>]
PyNone == [type |-> "NoneType", value |-> <<>>]

\* The for loop of shopSmart from shop i on.
RECURSIVE ShopSmartLoop(_, _, _, _, _)
ShopSmartLoop(order, shops, i, lowest_price, lowest_shop) ==
    IF i > Len(shops) THEN lowest_shop
    ELSE LET total_cost == getPriceOfOrder(shops[i], order)
         IN IF lowest_price = 0 \/ total_cost < lowest_price
            THEN ShopSmartLoop(order, shops, i + 1, total_cost, PyShop(shops[i]))
            ELSE ShopSmartLoop(order, shops, i + 1, lowest_price, lowest_shop)

shopSmart(order, shops) == ShopSmartLoop(order, shops, 1, 0, PyEmptyStr)

\* [x] + rest for each rest of a list of lists.
withFirst(x, rests) == [k \in 1..Len(rests) |-> <<x>> \o rests[k]]

RECURSIVE getAllSubsets(_)
getAllSubsets(lst) ==
    IF lst = <<>> THEN <<>>
    ELSE withFirst(Head(lst), getAllSubsets(Tail(lst))) \o getAllSubsets(Tail(lst))

\* Town.getFruitCostPerPoundOnRoute is None: no shop named in the route
\* carries the fruit.
NotCarried(shops, fruit, names) ==
    \A k \in 1..Len(shops) :
        shops[k].name \in names => fruit \notin DOMAIN shops[k].prices

allFruitsCarriedAtShops(shops, order, names) ==
    \A k \in 1..Len(order) : ~NotCarried(shops, order[k][1], names)

\* The list without its entry i.
Without(lst, i) == SubSeq(lst, 1, i - 1) \o SubSeq(lst, i + 1, Len(lst))

RECURSIVE Concat(_)
Concat(lsts) == IF lsts = <<>> THEN <<>> ELSE Head(lsts) \o Concat(Tail(lsts))

RECURSIVE getAllPermutations(_)
getAllPermutations(lst) ==
    IF lst = <<>> THEN <<>>
    ELSE IF Len(lst) = 1 THEN <<lst>>
    ELSE Concat([i \in 1..Len(lst) |->
                    withFirst(lst[i], getAllPermutations(Without(lst, i)))])

\* The routes of the subsets from subset k on that carry the whole order.
RECURSIVE RoutesFrom(_, _, _, _)
RoutesFrom(order, shops, subsets, k) ==
    IF k > Len(subsets) THEN <<>>
    ELSE (IF allFruitsCarriedAtShops(shops, order,
                                     {subsets[k][j].name : j \in 1..Len(subsets[k])})
          THEN getAllPermutations(subsets[k]) ELSE <<>>)
         \o RoutesFrom(order, shops, subsets, k + 1)

\* shopAroundTown on the town of the shops. A route is a list of FruitShop
\* objects, and Town.getDistance looks its entries up among the location
\* names of the distance table: the first route priced raises KeyError.
shopAroundTown(order, shops) ==
    LET possibleRoutes == RoutesFrom(order, shops, getAllSubsets(shops), 1)
    IN IF possibleRoutes = <<>>
       THEN [raised |-> "none", value |-> <<>>]
       ELSE [raised |-> "KeyError", value |-> <<>>]

InitShop ==
    /\ orderList \in OrderLists
    /\ fruitShops \in ShopLists
    /\ shopOut = <<>>
    /\ ParserIdle /\ EvalIdle /\ LedgerIdle /\ TimerIdle
    /\ questionToGrade = None
    /\ depends = [q \in Ids |-> <<>>]
    /\ klass = [q \in Ids |-> "PassAllTestsQuestion"]
    /\ extraPoints = [q \in Ids |-> 0]
    /\ testCases = [q \in Ids |-> <<>>]
    /\ hasSIGALRM = TRUE
    /\ InitRun(<<"q1">>, [q \in Ids |-> 0], FALSE, FALSE)

\* History: what the function returned.
Returns(fn, value) ==
    /\ fn \notin DOMAIN shopOut
    /\ shopOut' = [f \in DOMAIN shopOut \cup {fn} |->
                      IF f = fn THEN value ELSE shopOut[f]]
    /\ UNCHANGED <<configVars, gradeVars, parserVars, evalVars, calls, ops,
                   timerVars, orderList, fruitShops>>

CallShopSmart == Returns("shopSmart", shopSmart(orderList, fruitShops))

CallGetAllSubsets == Returns("getAllSubsets", getAllSubsets(fruitShops))

CallShopAroundTown == Returns("shopAroundTown", shopAroundTown(orderList, fruitShops))

NextShop == CallShopSmart \/ CallGetAllSubsets \/ CallShopAroundTown

SpecShop == InitShop /\ [][NextShop]_vars

\* C25: shopSmart returns None for an empty list of shops, and otherwise a
\* shop of the list whose price for the order is at most the price of every
\* shop of the list.
C25_CheapestShop ==
    "shopSmart" \in DOMAIN shopOut =>
        LET r == shopOut["shopSmart"]
        IN IF fruitShops = <<>> THEN r = PyNone
           ELSE /\ r.type = "FruitShop"
                /\ \E i \in 1..Len(fruitShops) : r.value = <<fruitShops[i]>>
                /\ \A j \in 1..Len(fruitShops) :
                      getPriceOfOrder(r.value[1], orderList)
                          <= getPriceOfOrder(fruitShops[j], orderList)

\* The sets of shops that between them carry every fruit of the order.
Covering ==
    {S \in SUBSET (1..Len(fruitShops)) :
        allFruitsCarriedAtShops(fruitShops, orderList, S)}

\* C26: getAllSubsets returns every subset of the list, and shopAroundTown
\* returns a route that is not empty when some set of shops carries every
\* fruit of the order.
C26_Powerset ==
    /\ "getAllSubsets" \in DOMAIN shopOut =>
          {Range(l) : l \in Range(shopOut["getAllSubsets"])}
              = SUBSET Range(fruitShops)
    /\ "shopAroundTown" \in DOMAIN shopOut /\ Covering # {} =>
          /\ shopOut["shopAroundTown"].raised = "none"
          /\ shopOut["shopAroundTown"].value # <<>>

----------------------------------------------------------------------------
(* util.py: TimeoutFunction.__call__ on a platform with SIGALRM, called by  *)
(* Grades.grade for one question after the other while time passes.         *)

\* The timeout of a call, in ticks of the clock (1800 seconds in the code).
Timeout == 2
\* How many questions are called.
MaxTimed == 3

\* The handler of SIGALRM when the autograder starts: the default action,
\* which ends the process, or the signal ignored.
StartHandlers == {"SIG_DFL", "SIG_IGN"}

\* sig.alarm is the number of ticks until SIGALRM is delivered, 0 when no
\* alarm is pending. tcalls has one record per call: the call's local
\* old_handler, how the call ended and the signal state it left.
InitTimer ==
    /\ sig \in {[handler |-> h, alarm |-> 0] : h \in StartHandlers}
    /\ tpc = "idle"
    /\ tcalls = <<>>
    /\ ParserIdle /\ EvalIdle /\ LedgerIdle /\ ShopIdle
    /\ questionToGrade = None
    /\ depends = [q \in Ids |-> <<>>]
    /\ klass = [q \in Ids |-> "PassAllTestsQuestion"]
    /\ extraPoints = [q \in Ids |-> 0]
    /\ testCases = [q \in Ids |-> <<>>]
    /\ hasSIGALRM = TRUE
    /\ InitRun(<<"q1">>, [q \in Ids |-> 0], FALSE, FALSE)

TimerFrame ==
    UNCHANGED <<configVars, gradeVars, parserVars, evalVars, calls, ops, shopVars>>

\* The call ends: History.
Ended(how, after) ==
    tcalls' = [tcalls EXCEPT ![Len(tcalls)] =
                  [@ EXCEPT !.how = how, !.after = <<after>>]]

\* old_handler = signal.signal(SIGALRM, self.handle_timeout);
\* signal.alarm(self.timeout); the wrapped function starts.
TimeoutCall ==
    /\ tpc = "idle"
    /\ Len(tcalls) < MaxTimed
    /\ tcalls' = Append(tcalls, [old_handler |-> sig.handler, how |-> "running",
                                 after |-> <<>>])
    /\ sig' = [handler |-> "handle_timeout", alarm |-> Timeout]
    /\ tpc' = "called"
    /\ TimerFrame

\* One tick of the clock with the alarm more than a tick away.
Tick ==
    /\ tpc \in {"idle", "called", "returning"}
    /\ sig.alarm > 1
    /\ sig' = [sig EXCEPT !.alarm = @ - 1]
    /\ UNCHANGED <<tpc, tcalls>>
    /\ TimerFrame

\* The wrapped function returns: the finally clause restores the handler.
FunctionReturns ==
    /\ tpc = "called"
    /\ sig' = [sig EXCEPT !.handler = tcalls[Len(tcalls)].old_handler]
    /\ tpc' = "returning"
    /\ UNCHANGED tcalls
    /\ TimerFrame

\* signal.alarm(0) and return result.
CancelAlarm ==
    /\ tpc = "returning"
    /\ sig' = [sig EXCEPT !.alarm = 0]
    /\ tpc' = "idle"
    /\ Ended("returned", sig')
    /\ TimerFrame

\* The wrapped function raises: the finally clause restores the handler and
\* the exception leaves __call__ before signal.alarm(0).
FunctionRaises ==
    /\ tpc = "called"
    /\ sig' = [sig EXCEPT !.handler = tcalls[Len(tcalls)].old_handler]
    /\ tpc' = "idle"
    /\ Ended("raised", sig')
    /\ TimerFrame

\* SIGALRM is delivered. With handle_timeout installed it raises
\* TimeoutFunctionException in the wrapped function, which leaves __call__
\* as any exception does; with the default action the process ends; an
\* ignored signal does nothing.
AlarmDelivered ==
    /\ tpc \in {"idle", "called", "returning"}
    /\ sig.alarm = 1
    /\ IF sig.handler = "handle_timeout"
       THEN /\ sig' = [handler |-> tcalls[Len(tcalls)].old_handler, alarm |-> 0]
            /\ tpc' = "idle"
            /\ Ended("timeout", sig')
       ELSE /\ sig' = [sig EXCEPT !.alarm = 0]
            /\ tpc' = IF sig.handler = "SIG_DFL" THEN "killed" ELSE tpc
            /\ UNCHANGED tcalls
    /\ TimerFrame

NextTimer ==
    \/ TimeoutCall
    \/ Tick
    \/ FunctionReturns
    \/ CancelAlarm
    \/ FunctionRaises
    \/ AlarmDelivered

SpecTimer == InitTimer /\ [][NextTimer]_vars

\* C28: every call that has ended, by a return or by an exception, left the
\* handler it found installed and no alarm pending; and no alarm ends the
\* process.
C28_AlarmCleared ==
    /\ \A k \in 1..Len(tcalls) :
          tcalls[k].how # "running" =>
              /\ tcalls[k].after[1].handler = tcalls[k].old_handler
              /\ tcalls[k].after[1].alarm = 0
    /\ tpc # "killed"

====
